---- MODULE Spec2Model ----
(***************************************************************************)
(* A model of the deepforest session object (deepforest/deepforest.py):    *)
(* construction, train, use_release and predict_image, together with the   *)
(* collaborators they delegate to (utilities, retinanet_train,             *)
(* convert_model, predict, pyplot).                                        *)
(*                                                                         *)
(* Python objects are modelled as handles: records carrying an identity    *)
(* (id), the routine that produced them (kind) and what they were produced *)
(* from (path for a model read from disk, of for a converted model).  A    *)
(* call that builds a new object takes its id from the counter nextId, so  *)
(* a new object is distinct from every object built before it.             *)
(***************************************************************************)
EXTENDS Integers, FiniteSets, Sequences, TLC

VARIABLES
    phase,             \* "new" | "ready" | "failed": position of the constructor
    saved_model,       \* self.saved_model
    config,            \* self.config
    model,             \* self.model
    prediction_model,  \* self.prediction_model
    training_model,    \* self.training_model
    nextId,            \* identity of the next object to be allocated
    called,            \* names of the methods called so far on the session
    lastCall           \* observation of the most recent method call

vars == << phase, saved_model, config, model, prediction_model,
           training_model, nextId, called, lastCall >>

-----------------------------------------------------------------------------
(* Bounds *)

MaxId == 7

-----------------------------------------------------------------------------
(* Values *)

NoPath == "None"

LocalPaths == {"local.h5", "missing.h5"}

ReleasePaths == {"release_v1.h5", "release_v2.h5", "release_corrupt.h5"}

Readable == {"local.h5", "release_v1.h5", "release_v2.h5"}

ImagePaths == {"a.tif", "b.tif"}

Handle(i, k, p, o) == [id |-> i, kind |-> k, path |-> p, of |-> o]

\* Python None
None == Handle(0, "None", NoPath, 0)

\* an attribute that no assignment has created yet
Unset == Handle(0, "Unset", NoPath, 0)

\* value of self.config before the constructor ran
NoConfig == "unread"

\* a value that is neither image nor boxes: no value was returned / shown
NoValue == [kind |-> "none", by |-> None, image_path |-> NoPath, channels |-> "none"]

-----------------------------------------------------------------------------
(* Collaborators *)

\* utilities.read_config(): the options mapping
read_config == "config"

\* utilities.read_model(path, config): raises for an unreadable path
read_model_raises(path) == path \notin Readable

\* utilities.read_model(path, config): the handle of the model read from path
read_model(path, id) == Handle(id, "read", path, 0)

\* retinanet_train(...): the three handles it returns
retinanet_train(id) ==
    << Handle(id, "trained", NoPath, 0),
       Handle(id + 1, "prediction", NoPath, id),
       Handle(id + 2, "training", NoPath, id) >>

\* keras_retinanet.models.convert_model(None) has no model to wrap and raises
convert_model_raises(m) == m = None

\* keras_retinanet.models.convert_model(m): a new inference model wrapping m
convert_model(m, id) == Handle(id, "converted", NoPath, m.id)

\* predict.predict_image(model, image_path, return_plot): an image with the
\* boxes drawn on it (cv2 channel order) or the array of boxes
predict_predict_image(pm, image_path, return_plot) ==
    IF return_plot
    THEN [kind |-> "image", by |-> pm, image_path |-> image_path, channels |-> "BGR"]
    ELSE [kind |-> "boxes", by |-> pm, image_path |-> image_path, channels |-> "none"]

\* image[:,:,::-1]: a copy with the channel axis reversed
reverse_channels(image) ==
    [image EXCEPT !.channels = IF @ = "BGR" THEN "RGB"
                               ELSE IF @ = "RGB" THEN "BGR" ELSE @]

-----------------------------------------------------------------------------
(* The session *)

Session == [saved_model |-> saved_model, config |-> config, model |-> model,
            prediction_model |-> prediction_model,
            training_model |-> training_model]

NoSession == [saved_model |-> NoPath, config |-> NoConfig, model |-> Unset,
              prediction_model |-> Unset, training_model |-> Unset]

NoArg == [image_path |-> NoPath, return_plot |-> FALSE, show |-> FALSE]

\* what a caller observes of one method call: the session before it (pre),
\* how it ended (outcome), the value returned (ret), the image handed to
\* pyplot (shown), whether convert_model and predict.predict_image were
\* invoked, the model handed to predict.predict_image (used), the path the
\* release resolver returned (resolved) and the arguments (arg)
NoCall ==
    [op |-> "none", outcome |-> "ok", pre |-> NoSession, ret |-> NoValue,
     shown |-> NoValue, converted |-> FALSE, predicted |-> FALSE,
     used |-> Unset, resolved |-> NoPath, arg |-> NoArg]

Call(op, outcome, pre) == [NoCall EXCEPT !.op = op, !.outcome = outcome, !.pre = pre]

\* the result of a method on session s: the session it leaves and the call observed
Result(s, id, call) == [session |-> s, nextId |-> id, call |-> call]

-----------------------------------------------------------------------------
(* __init__ *)

\* the constructor forgets to load the model
init_model_none(path, id) == None

\* lines 33-36: the model the constructor stores
init_model(path, id) ==
    IF path # NoPath THEN read_model(path, id) ELSE None

deepforest_init_result(path, id) ==
    LET s1 == [NoSession EXCEPT !.saved_model = path, !.config = read_config]
    IN  IF path # NoPath /\ read_model_raises(path)
        THEN Result(s1, id, Call("__init__", "DelegatedError", NoSession))
        ELSE Result([s1 EXCEPT !.model = init_model(path, id)],
                    IF path # NoPath THEN id + 1 ELSE id,
                    Call("__init__", "ok", NoSession))

-----------------------------------------------------------------------------
(* train *)

\* only the trained model is stored
train_assign_model_only(s, handles) == [s EXCEPT !.model = handles[1]]

\* line 58: the references the tuple assignment overwrites
train_assign(s, handles) ==
    [s EXCEPT !.model = handles[1],
              !.prediction_model = handles[2],
              !.training_model = handles[3]]

\* fail: which delegated call raises, if any
train_result(s, id, fail) ==
    IF fail \in {"format_args", "retinanet_train"}
    THEN Result(s, id, Call("train", "DelegatedError", s))
    ELSE Result(train_assign(s, retinanet_train(id)), id + 3,
                Call("train", "ok", s))

-----------------------------------------------------------------------------
(* use_release *)

\* line 70
use_release_set_path(s, path) == [s EXCEPT !.saved_model = path]

\* the model read is dropped
use_release_drop_model(s, id) == s

\* line 71
use_release_set_model(s, id) ==
    [s EXCEPT !.model = read_model(s.saved_model, id)]

\* resolved: the path utilities.use_release() returns, NoPath when it raises
use_release_result(s, id, resolved) ==
    IF resolved = NoPath
    THEN Result(s, id, Call("use_release", "DelegatedError", s))
    ELSE LET s1 == use_release_set_path(s, resolved)
         IN  IF read_model_raises(s1.saved_model)
             THEN Result(s1, id,
                         [Call("use_release", "DelegatedError", s)
                             EXCEPT !.resolved = resolved])
             ELSE Result(use_release_set_model(s1, id), id + 1,
                         [Call("use_release", "ok", s)
                             EXCEPT !.resolved = resolved])

-----------------------------------------------------------------------------
(* predict_image *)

\* the check is omitted
has_weights_unchecked(s) == TRUE

\* line 85: the check that guards inference
has_weights(s) == s.saved_model # NoPath

\* the displayed copy is returned
predict_image_return_shown(pm, image_path, return_plot, show) ==
    IF return_plot /\ show
    THEN reverse_channels(predict_predict_image(pm, image_path, return_plot))
    ELSE predict_predict_image(pm, image_path, return_plot)

\* the branches are swapped
predict_image_return_swapped(pm, image_path, return_plot, show) ==
    predict_predict_image(pm, image_path, ~ return_plot)

\* lines 91-100: the value returned
predict_image_return(pm, image_path, return_plot, show) ==
    IF return_plot
    THEN predict_predict_image(pm, image_path, return_plot)
    ELSE predict_predict_image(pm, image_path, return_plot)

\* lines 94-96: the image handed to plt.imshow, NoValue when none is
predict_image_shown(pm, image_path, return_plot, show) ==
    IF return_plot /\ show
    THEN reverse_channels(predict_predict_image(pm, image_path, return_plot))
    ELSE NoValue

\* line 89
predict_image_convert(s, id) ==
    [s EXCEPT !.prediction_model = convert_model(s.model, id)]

\* raises: whether predict.predict_image raises
predict_image_result(s, id, image_path, return_plot, show, raises) ==
    LET arg  == [image_path |-> image_path, return_plot |-> return_plot,
                 show |-> show]
        call == [Call("predict_image", "ok", s) EXCEPT !.arg = arg]
    IN  IF ~ has_weights(s)
        THEN Result(s, id, [call EXCEPT !.outcome = "ValueError"])
        ELSE IF convert_model_raises(s.model)
        THEN Result(s, id, [call EXCEPT !.outcome = "DelegatedError",
                                        !.converted = TRUE])
        ELSE LET s1 == predict_image_convert(s, id)
                 pm == s1.prediction_model
             IN  IF raises
                 THEN Result(s1, id + 1,
                             [call EXCEPT !.outcome = "DelegatedError",
                                          !.converted = TRUE,
                                          !.predicted = TRUE,
                                          !.used = pm])
                 ELSE Result(s1, id + 1,
                             [call EXCEPT
                                !.converted = TRUE,
                                !.predicted = TRUE,
                                !.used = pm,
                                !.ret = predict_image_return(pm, image_path, return_plot, show),
                                !.shown = predict_image_shown(pm, image_path, return_plot, show)])

-----------------------------------------------------------------------------
(* The state machine *)

Init ==
    /\ phase = "new"
    /\ saved_model = NoPath
    /\ config = NoConfig
    /\ model = Unset
    /\ prediction_model = Unset
    /\ training_model = Unset
    /\ nextId = 1
    /\ called = {}
    /\ lastCall = NoCall

\* the method returned or raised leaving r
Apply(r, name) ==
    /\ r.nextId <= MaxId + 1
    /\ saved_model' = r.session.saved_model
    /\ config' = r.session.config
    /\ model' = r.session.model
    /\ prediction_model' = r.session.prediction_model
    /\ training_model' = r.session.training_model
    /\ nextId' = r.nextId
    /\ lastCall' = r.call
    /\ called' = called \cup {name}

\* deepforest(saved_model=path); path = NoPath is saved_model=None
deepforest_init(path) ==
    /\ phase = "new"
    /\ LET r == deepforest_init_result(path, nextId)
       IN  /\ Apply(r, IF path = NoPath THEN "__init__(None)" ELSE "__init__(path)")
           /\ phase' = IF r.call.outcome = "ok" THEN "ready" ELSE "failed"

train(fail) ==
    /\ phase = "ready"
    /\ Apply(train_result(Session, nextId, fail), "train")
    /\ UNCHANGED phase

use_release(resolved) ==
    /\ phase = "ready"
    /\ Apply(use_release_result(Session, nextId, resolved), "use_release")
    /\ UNCHANGED phase

predict_image(image_path, return_plot, show, raises) ==
    /\ phase = "ready"
    /\ Apply(predict_image_result(Session, nextId, image_path, return_plot,
                                  show, raises), "predict_image")
    /\ UNCHANGED phase

Next ==
    \/ \E path \in LocalPaths \cup {NoPath} : deepforest_init(path)
    \/ \E fail \in {"none", "format_args", "retinanet_train"} : train(fail)
    \/ \E resolved \in ReleasePaths \cup {NoPath} : use_release(resolved)
    \/ \E image_path \in ImagePaths, return_plot \in BOOLEAN,
          show \in BOOLEAN, raises \in BOOLEAN :
            predict_image(image_path, return_plot, show, raises)

Spec == Init /\ [][Next]_vars

-----------------------------------------------------------------------------
(* Properties *)

HoldsModel(s) == s.model \notin {None, Unset}

Predicted == lastCall.op = "predict_image"

\* the outcomes predict_image can have in the current state
PredictOutcomes ==
    { predict_image_result(Session, nextId, i, rp, sh, ra) :
        i \in ImagePaths, rp \in BOOLEAN, sh \in BOOLEAN, ra \in BOOLEAN }

\* C1: predict_image on a session that holds a model (loaded, released or
\* trained) does not raise the invalid-state error.
C1_ModelHeldNoValueError ==
    (Predicted /\ HoldsModel(lastCall.pre)) => lastCall.outcome # "ValueError"

\* C2: predict_image on a session whose model is absent raises the
\* invalid-state error and invokes neither convert_model nor the prediction
\* routine.
C2_NoModelNoInference ==
    (Predicted /\ lastCall.pre.model = None) =>
        /\ lastCall.outcome = "ValueError"
        /\ ~ lastCall.converted
        /\ ~ lastCall.predicted

FreshSession ==
    /\ "__init__(None)" \in called
    /\ called \cap {"train", "use_release"} = {}

\* C3: on a session constructed without a path, with no train or use_release
\* call so far, predict_image raises the invalid-state error for every
\* argument and leaves the session as it was.
C3_FreshSessionValueError ==
    (Predicted /\ FreshSession) =>
        /\ lastCall.outcome = "ValueError"
        /\ Session = lastCall.pre
        /\ ~ lastCall.converted
        /\ ~ lastCall.predicted

C3_Witness ==
    /\ Predicted /\ FreshSession
    /\ lastCall.outcome = "ValueError"
    /\ lastCall.arg.show /\ ~ lastCall.arg.return_plot

\* C4: after a successful use_release the model is the one read from the
\* path the resolver returned, the saved-model path is that path, and
\* predict_image does not raise the invalid-state error.
C4_ReleaseLoaded ==
    (lastCall.op = "use_release" /\ lastCall.outcome = "ok") =>
        /\ model # None
        /\ model.kind = "read"
        /\ model.path = lastCall.resolved
        /\ model # lastCall.pre.model
        /\ saved_model = lastCall.resolved
        /\ saved_model \in ReleasePaths
        /\ \A r \in PredictOutcomes : r.call.outcome # "ValueError"

C4_Witness ==
    /\ lastCall.op = "use_release" /\ lastCall.outcome = "ok"
    /\ HoldsModel(lastCall.pre)
    /\ lastCall.pre.saved_model # saved_model
    /\ "train" \in called

\* C5: a successful train overwrites model, prediction model and training
\* model with the three handles of the training entry point, each different
\* from the value the reference held before.
C5_TrainOverwrites ==
    (lastCall.op = "train" /\ lastCall.outcome = "ok") =>
        /\ model.kind = "trained"
        /\ prediction_model.kind = "prediction" /\ prediction_model.of = model.id
        /\ training_model.kind = "training" /\ training_model.of = model.id
        /\ model # lastCall.pre.model
        /\ prediction_model # lastCall.pre.prediction_model
        /\ training_model # lastCall.pre.training_model

C5_Witness ==
    /\ lastCall.op = "train" /\ lastCall.outcome = "ok"
    /\ lastCall.pre.model.kind = "trained"
    /\ lastCall.pre.prediction_model.kind = "converted"

\* C6: a session constructed with a readable saved-model path holds the
\* model read from that path, and predict_image on it goes on to the
\* delegated prediction without the invalid-state error.
C6_LoadedFromPath ==
    (lastCall.op = "__init__" /\ lastCall.outcome = "ok" /\ saved_model # NoPath) =>
        /\ model # None
        /\ model = read_model(saved_model, model.id)
        /\ config = read_config
        /\ \A r \in PredictOutcomes :
              /\ r.call.outcome # "ValueError"
              /\ r.call.predicted

C6_Witness ==
    /\ lastCall.op = "__init__" /\ lastCall.outcome = "ok"
    /\ saved_model \in LocalPaths
    /\ model.path = saved_model

\* the result of predict_image without the display
Undisplayed(r) == [r EXCEPT !.call.shown = NoValue, !.call.arg.show = FALSE]

\* C7: show=True and show=False give the same returned value and the same
\* session; an image is displayed exactly when return_plot and show are
\* both true.
C7_ShowOnlyDisplays ==
    /\ phase = "ready" =>
         \A i \in ImagePaths, rp \in BOOLEAN, ra \in BOOLEAN :
            LET a == predict_image_result(Session, nextId, i, rp, TRUE, ra)
                b == predict_image_result(Session, nextId, i, rp, FALSE, ra)
            IN  /\ a.call.ret = b.call.ret
                /\ a.session = b.session
                /\ Undisplayed(a) = b
                /\ b.call.shown = NoValue
    /\ (Predicted /\ lastCall.outcome = "ok") =>
         ((lastCall.shown # NoValue) <=>
            (lastCall.arg.return_plot /\ lastCall.arg.show))

C7_Witness ==
    /\ Predicted /\ lastCall.outcome = "ok"
    /\ lastCall.arg.return_plot /\ lastCall.arg.show
    /\ lastCall.shown = reverse_channels(lastCall.ret)
    /\ lastCall.shown # lastCall.ret

\* C8: return_plot alone selects the output: with it the image of the
\* prediction routine in plot mode, unmodified; without it the boxes of the
\* routine in raw mode, and nothing is rendered.
C8_ReturnPlotSelectsOutput ==
    (Predicted /\ lastCall.outcome = "ok") =>
        /\ lastCall.ret = predict_predict_image(lastCall.used,
                             lastCall.arg.image_path, lastCall.arg.return_plot)
        /\ lastCall.arg.return_plot =>
              (lastCall.ret.kind = "image" /\ lastCall.ret.channels = "BGR")
        /\ ~ lastCall.arg.return_plot =>
              (lastCall.ret.kind = "boxes" /\ lastCall.shown = NoValue)

C8_Witness ==
    /\ Predicted /\ lastCall.outcome = "ok"
    /\ ~ lastCall.arg.return_plot /\ lastCall.arg.show
    /\ lastCall.ret.kind = "boxes"

\* C9: a predict_image call that passes the check converts the model held
\* into a new inference model, stores it as the prediction model and runs
\* the prediction with it, leaving model, saved-model path, training model
\* and configuration as they were.
C9_ConvertsOnEveryCall ==
    (Predicted /\ lastCall.outcome # "ValueError") =>
        /\ lastCall.converted
        /\ prediction_model.kind = "converted"
        /\ prediction_model.of = lastCall.pre.model.id
        /\ prediction_model # lastCall.pre.prediction_model
        /\ lastCall.predicted
        /\ lastCall.used = prediction_model
        /\ model = lastCall.pre.model
        /\ saved_model = lastCall.pre.saved_model
        /\ training_model = lastCall.pre.training_model
        /\ config = lastCall.pre.config

\* C10: a train or use_release call in which a delegated call raises leaves
\* the session as it was, so a saved-model path is held only with a model.
C10_FailureLeavesSession ==
    /\ (lastCall.op \in {"train", "use_release"} /\ lastCall.outcome = "DelegatedError")
          => Session = lastCall.pre
    /\ (phase = "ready" /\ saved_model # NoPath) => HoldsModel(Session)

====
